---------------------------- MODULE Spec2Model ----------------------------
(* A model of the URA property-transaction ingestion utility:              *)
(*   src/scrapers/ura_scraper.py  URAScraper (HTTP fetch, retry, flatten,  *)
(*                                classification)                          *)
(*   src/db/db_client.py          DatabaseClient (chunked insert, helpers) *)
(*   src/main.py                  main, scrape_and_store_ura_data,         *)
(*                                show_statistics                          *)
(* Python strings are sequences of one-character strings, so that upper()  *)
(* and the substring test `in` are computed, not assumed.  Python dicts    *)
(* are functions whose DOMAIN is the set of keys present.                  *)
EXTENDS Integers, Sequences, FiniteSets, TLC

VARIABLES
    \* ---- URAScraper ----
    caller,            \* who runs the single-batch fetch: "none" | "single" | "all"
    sPc,               \* position inside the scraper
    batch,             \* batch number being fetched
    attempt,           \* tenacity's attempt_number of the running _make_request
    waits,             \* seconds slept by tenacity before each retry of this request
    httpLog,           \* batch number of every session.get issued by this call
    data,              \* what _make_request returned to the single-batch fetch
    transactions,      \* return value of get_private_residential_transactions
    outcome,           \* how that fetch ended: "none" | "returned" | "raised"
    all_transactions,  \* accumulator of get_all_available_transactions
    responses,         \* per batch fetched so far, what _make_request produced
    result,            \* its return value: [condo |-> ..., landed |-> ...]
    now,               \* the clock read by datetime.now(), at the grain of one run
    expShift,          \* exponent tenacity gives the first retry wait (library release)
    \* ---- DatabaseClient ----
    conn,              \* self.conn: "none" | "open" | "broken" (server lost) | "closed"
    table,             \* committed rows of each table
    pending,           \* rows written by the open transaction, not yet committed
    txAborted,         \* the open transaction is in the failed state
    rowcount,          \* cursor.rowcount
    dPc,               \* position inside the running DatabaseClient method
    dArgs,             \* its method name and arguments
    chunk_i,           \* loop index i of insert_transactions
    total_inserted,    \* accumulator of insert_transactions
    dRet,              \* how the method ended: [kind, value]
    tableAtCall,       \* history: the committed rows when the method was entered
    callLog,           \* history: what happened to the chunks of this call
    committedLog,      \* history: the rows of every chunk committed so far
    \* ---- main ----
    mPc,               \* position inside main
    args,              \* parsed command line: [include_rentals, stats_only]
    statsStep,         \* next query of show_statistics
    exitCode           \* main's return value, -1 while it runs

scraperVars == <<caller, sPc, batch, attempt, waits, httpLog, data, transactions,
                 outcome, all_transactions, responses, result, now, expShift>>

dbVars == <<conn, table, pending, txAborted, rowcount, dPc, dArgs, chunk_i,
            total_inserted, dRet, tableAtCall, callLog, committedLog>>

mainVars == <<mPc, args, statsStep, exitCode>>

vars == <<caller, sPc, batch, attempt, waits, httpLog, data, transactions,
          outcome, all_transactions, responses, result, now, expShift,
          conn, table, pending, txAborted, rowcount, dPc, dArgs, chunk_i,
          total_inserted, dRet, tableAtCall, callLog, committedLog,
          mPc, args, statsStep, exitCode>>

-----------------------------------------------------------------------------
(* Bounds of the model. *)

\* longest Result list of one API response
MaxProjects == 2
\* longest transaction list of one project
MaxTxns == 2
\* longest record list handed to the classification step on its own
MaxClassify == 2
\* longest record list handed to insert_transactions directly
MaxRecords == 2
\* largest batch_size handed to insert_transactions directly
MaxBatchSize == 2
\* the batch_size main runs with: the default of 1000 scaled to the list lengths
DefaultBatchSize == 2

\* longest list of dated records handed to one insert_transactions call
MaxDated == 2

-----------------------------------------------------------------------------
(* Python values. *)

Empty == <<>>

\* Python's None, kept apart from every dict the API can return
None == [py_none |-> TRUE]

\* dict.get(key, default)
Get(d, key, default) == IF key \in DOMAIN d THEN d[key] ELSE default

\* a dict cut down to the keys in ks
Restrict(d, ks) == [k \in (DOMAIN d) \cap ks |-> d[k]]

LowerCase == <<"a","b","c","d","e","f","g","h","i","j","k","l","m",
               "n","o","p","q","r","s","t","u","v","w","x","y","z">>
UpperCase == <<"A","B","C","D","E","F","G","H","I","J","K","L","M",
               "N","O","P","Q","R","S","T","U","V","W","X","Y","Z">>

UpperChar(c) ==
    IF \E i \in 1..26 : LowerCase[i] = c
    THEN UpperCase[CHOOSE i \in 1..26 : LowerCase[i] = c]
    ELSE c

\* str.upper()
upper(s) == [i \in 1..Len(s) |-> UpperChar(s[i])]

\* needle in hay, for Python strings
In(needle, hay) ==
    \E i \in 0..(Len(hay) - Len(needle)) :
        SubSeq(hay, i + 1, i + Len(needle)) = needle

-----------------------------------------------------------------------------
(* URAScraper.get_private_residential_transactions: flattening. *)

IsoFormat(t) == <<"T", t>>

FlatRecord(project, transaction, b, t) ==
    [ project_name   |-> Get(project, "project", Empty),
      street         |-> Get(project, "street", Empty),
      x_coordinate   |-> Get(project, "x", Empty),
      y_coordinate   |-> Get(project, "y", Empty),
      area           |-> Get(transaction, "area", Empty),
      floor_range    |-> Get(transaction, "floorRange", Empty),
      no_of_units    |-> Get(transaction, "noOfUnits", Empty),
      contract_date  |-> Get(transaction, "contractDate", Empty),
      type_of_sale   |-> Get(transaction, "typeOfSale", Empty),
      price          |-> Get(transaction, "price", Empty),
      property_type  |-> Get(transaction, "propertyType", Empty),
      district       |-> Get(transaction, "district", Empty),
      type_of_area   |-> Get(transaction, "typeOfArea", Empty),
      tenure         |-> Get(transaction, "tenure", Empty),
      market_segment |-> Get(transaction, "marketSegment", Empty),
      batch          |-> b,
      scraped_at     |-> IsoFormat(t) ]

RECURSIVE AppendTransactions(_, _, _, _, _)
\* the inner loop: for transaction in project.get('transaction', [])
AppendTransactions(acc, project, txns, b, t) ==
    IF txns = <<>> THEN acc
    ELSE AppendTransactions(Append(acc, FlatRecord(project, Head(txns), b, t)),
                            project, Tail(txns), b, t)

RECURSIVE FlattenHoisted(_, _, _, _, _)
FlattenHoisted(acc, first, projects, b, t) ==
    IF projects = <<>> THEN acc
    ELSE FlattenHoisted(
             AppendTransactions(acc, first,
                                Get(Head(projects), "transaction", <<>>), b, t),
             first, Tail(projects), b, t)

\* the outer loop with the project's identity read once, before the loop
FlattenResultHoisted(acc, projects, b, t) ==
    IF projects = <<>> THEN acc
    ELSE FlattenHoisted(acc, Head(projects), projects, b, t)

RECURSIVE FlattenResult(_, _, _, _)
\* the outer loop: for project in result
FlattenResult(acc, projects, b, t) ==
    IF projects = <<>> THEN acc
    ELSE FlattenResult(
             AppendTransactions(acc, Head(projects),
                                Get(Head(projects), "transaction", <<>>), b, t),
             Tail(projects), b, t)

\* `not data or 'Result' not in data`
NoResult(d) == d = None \/ DOMAIN d = {} \/ "Result" \notin DOMAIN d

\* the value the single-batch fetch returns for a response d
ParseResponse(d, b, t) ==
    IF NoResult(d) THEN <<>>
    ELSE FlattenResult(<<>>, Get(d, "Result", <<>>), b, t)

-----------------------------------------------------------------------------
(* URAScraper.get_all_available_transactions: classification. *)

DETACHED == <<"D","E","T","A","C","H","E","D">>
TERRACE  == <<"T","E","R","R","A","C","E">>
BUNGALOW == <<"B","U","N","G","A","L","O","W">>

LandedTypes == {DETACHED, TERRACE, BUNGALOW}

\* the test without .upper(): a case-sensitive match
IsLandedCaseSensitive(txn) ==
    LET property_type == Get(txn, "property_type", Empty)
    IN  \E landed_type \in LandedTypes : In(landed_type, property_type)

IsLanded(txn) ==
    LET property_type == upper(Get(txn, "property_type", Empty))
    IN  \E landed_type \in LandedTypes : In(landed_type, property_type)

RECURSIVE Separate(_, _, _)
\* for txn in all_transactions: append to landed or to condo
Separate(txns, condo, landed) ==
    IF txns = <<>> THEN [condo |-> condo, landed |-> landed]
    ELSE IF IsLanded(Head(txns))
         THEN Separate(Tail(txns), condo, Append(landed, Head(txns)))
         ELSE Separate(Tail(txns), Append(condo, Head(txns)), landed)

-----------------------------------------------------------------------------
(* The API responses the model draws from. *)

SeqsUpTo(S, n) == UNION {[1..k -> S] : k \in 0..n}

FullTransaction ==
    [ area          |-> <<"9","0">>,
      floorRange    |-> <<"0","1","-","0","5">>,
      noOfUnits     |-> <<"1">>,
      contractDate  |-> <<"0","1","2","4">>,
      typeOfSale    |-> <<"3">>,
      price         |-> <<"1","8","0","0">>,
      propertyType  |-> <<"C","o","n","d","o","m","i","n","i","u","m">>,
      district      |-> <<"0","9">>,
      typeOfArea    |-> <<"S","t","r","a","t","a">>,
      tenure        |-> <<"F","r","e","e","h","o","l","d">>,
      marketSegment |-> <<"C","C","R">> ]

\* a transaction object that carries only some of the fields
SparseTransaction ==
    [ area          |-> <<"2","1","0">>,
      contractDate  |-> <<"0","2","2","4">>,
      price         |-> <<"5","2","0","0">>,
      propertyType  |-> <<"S","e","m","i","-","D","e","t","a","c","h","e","d">> ]

TransactionSamples == {FullTransaction, SparseTransaction}

FullProject ==
    [ project |-> <<"S","K","Y">>,
      street  |-> <<"O","R","C","H","A","R","D">>,
      x       |-> <<"1","2","3">>,
      y       |-> <<"4","5","6">> ]

\* a project object without street and y, whose name holds a landed keyword
SparseProject ==
    [ project |-> <<"T","e","r","r","a","c","e"," ","V","i","e","w">>,
      x       |-> <<"7","8","9">> ]

ProjectShells == {FullProject, SparseProject}

WithTransactions(shell, txns) ==
    [k \in (DOMAIN shell) \cup {"transaction"} |->
        IF k = "transaction" THEN txns ELSE shell[k]]

ProjectsOver(txnSamples, maxTxns) ==
    ProjectShells \cup
    {WithTransactions(shell, txns) :
        shell \in ProjectShells, txns \in SeqsUpTo(txnSamples, maxTxns)}

StatusSuccess == <<"S","u","c","c","e","s","s">>

Response(projects) == [Status |-> StatusSuccess, Result |-> projects]

\* a body without Result, as the API sends on an error status
ErrorBody == [Status |-> <<"E","r","r","o","r">>]

\* responses to a single-batch fetch
BatchResponses ==
    {None, ErrorBody} \cup
    {Response(ps) :
        ps \in SeqsUpTo(ProjectsOver(TransactionSamples, MaxTxns), MaxProjects)}

\* responses to the four fetches of one full run
PipelineResponses ==
    { ErrorBody,
      Response(<<WithTransactions(FullProject,
                                  <<FullTransaction, SparseTransaction>>)>>),
      Response(<<WithTransactions(SparseProject, <<FullTransaction>>),
                 FullProject,
                 WithTransactions(FullProject, <<SparseTransaction>>)>>) }

PropertyTypeSamples ==
    { <<>>,
      <<"C","o","n","d","o">>,
      <<"A","p","t">>,
      <<"S","e","m","i","-","D","e","t","a","c","h","e","d">>,
      <<"d","e","t","a","c","h","e","d"," ","h","s","e">>,
      <<"T","e","r","r","a","c","e">>,
      <<"S","T","R","A","T","A"," ","T","E","R","R","A","C","E">>,
      <<"B","u","n","g","a","l","o","w">>,
      <<"D","e","t","a","c","h","e">>,
      <<"T","e","r","a","c","e">>,
      <<"B","u","n","g","a","-","l","o","w">> }

\* transactions that differ in property type and in one other field
TypedTransactions ==
    {[price |-> <<"1">>] , [tenure |-> TERRACE]} \cup
    {[propertyType |-> ty, price |-> pr] :
        ty \in PropertyTypeSamples, pr \in {<<"1">>, <<"2">>}}

\* responses whose records feed the classification step on its own
ClassifyResponses ==
    {Response(<<WithTransactions(shell, txns)>>) :
        shell \in ProjectShells, txns \in SeqsUpTo(TypedTransactions, MaxClassify)}

-----------------------------------------------------------------------------
(* URAScraper._make_request: tenacity's retry policy (decorator, lines 45-48). *)

\* stop_after_attempt(3)
MaxAttempts == 3
\* wait_exponential(multiplier=1, min=2, max=10)
WaitMultiplier == 1
WaitMin == 2
WaitMax == 10
\* for batch in range(1, 5)
NumBatches == 4

Max(a, b) == IF a >= b THEN a ELSE b
Min(a, b) == IF a <= b THEN a ELSE b

\* stop_after_attempt with the comparison off by one
StopAfterOffByOne(n) == n > MaxAttempts

\* tenacity's stop condition after attempt number n
stop_after_attempt(n) == n >= MaxAttempts

\* the wait tenacity computes after failed attempt number n.  Releases from
\* 7.0 on raise 2 to n - 1, earlier ones to n: shift is 0 or 1.
wait_exponential(n, shift) ==
    Max(Max(0, WaitMin), Min(WaitMultiplier * 2 ^ (n - 1 + shift), WaitMax))

\* what _make_request hands on when tenacity gives up
RetryError == [py_exception |-> "RetryError"]

\* the single-batch fetch without its except clause
OnFetchErrorPropagate == [outcome |-> "raised", transactions |-> <<>>]

\* the except clause of the single-batch fetch (lines 136-138)
OnFetchError == [outcome |-> "returned", transactions |-> <<>>]

-----------------------------------------------------------------------------
(* Scraper actions. *)

NoResultYet == [condo |-> <<>>, landed |-> <<>>]

ScraperIdle ==
    /\ caller = "none"
    /\ sPc = "idle"
    /\ batch = 0
    /\ attempt = 0
    /\ waits = <<>>
    /\ httpLog = <<>>
    /\ data = None
    /\ transactions = <<>>
    /\ outcome = "none"
    /\ all_transactions = <<>>
    /\ responses = <<>>
    /\ result = NoResultYet

\* entering get_private_residential_transactions(b): first attempt of _make_request
StartFetch(b) ==
    /\ batch' = b
    /\ attempt' = 1
    /\ waits' = <<>>
    /\ data' = None
    /\ transactions' = <<>>
    /\ outcome' = "none"
    /\ sPc' = "request"

\* a direct call get_private_residential_transactions(b)
CallSingle ==
    /\ caller = "none" /\ sPc = "idle"
    /\ \E b \in 1..NumBatches : StartFetch(b)
    /\ caller' = "single"
    /\ httpLog' = <<>>
    /\ UNCHANGED <<all_transactions, responses, result, now, expShift>>

\* session.get succeeds: _make_request returns the body, the fetch flattens it
RequestOk(universe) ==
    /\ sPc = "request"
    /\ \E d \in universe :
        /\ data' = d
        /\ transactions' = ParseResponse(d, batch, now)
    /\ httpLog' = Append(httpLog, batch)
    /\ outcome' = "returned"
    /\ sPc' = "fetched"
    /\ UNCHANGED <<caller, batch, attempt, waits, all_transactions, responses,
                   result, now, expShift>>

\* session.get raises: tenacity sleeps and retries, or gives up after the last
\* attempt and the fetch's except clause decides
RequestFail ==
    /\ sPc = "request"
    /\ httpLog' = Append(httpLog, batch)
    /\ IF ~stop_after_attempt(attempt)
       THEN /\ attempt' = attempt + 1
            /\ waits' = Append(waits, wait_exponential(attempt, expShift))
            /\ UNCHANGED <<data, transactions, outcome, sPc>>
       ELSE /\ data' = RetryError
            /\ transactions' = OnFetchError.transactions
            /\ outcome' = OnFetchError.outcome
            /\ sPc' = "fetched"
            /\ UNCHANGED <<attempt, waits>>
    /\ UNCHANGED <<caller, batch, all_transactions, responses, result, now, expShift>>

\* the direct caller gets the list (or the exception); the frame is dropped
ReturnSingle ==
    /\ caller = "single" /\ sPc = "fetched"
    /\ caller' = "none"
    /\ sPc' = "idle"
    /\ batch' = 0
    /\ attempt' = 0
    /\ waits' = <<>>
    /\ httpLog' = <<>>
    /\ data' = None
    /\ transactions' = <<>>
    /\ outcome' = "none"
    /\ UNCHANGED <<all_transactions, responses, result, now, expShift>>

\* entering get_all_available_transactions: batch 1 is requested
CallAll ==
    /\ caller = "none" /\ sPc = "idle"
    /\ caller' = "all"
    /\ all_transactions' = <<>>
    /\ responses' = <<>>
    /\ result' = NoResultYet
    /\ httpLog' = <<>>
    /\ StartFetch(1)
    /\ UNCHANGED <<now, expShift>>

\* one turn of the loop: extend, sleep, go on to the next batch or classify;
\* an exception out of the fetch would leave the loop and the function
ExtendAll ==
    /\ caller = "all" /\ sPc = "fetched"
    /\ IF outcome = "raised"
       THEN /\ sPc' = "aborted"
            /\ UNCHANGED <<batch, attempt, waits, data, transactions, outcome,
                           all_transactions, responses>>
       ELSE /\ all_transactions' = all_transactions \o transactions
            /\ responses' = Append(responses, data)
            /\ IF batch < NumBatches
               THEN StartFetch(batch + 1)
               ELSE /\ sPc' = "classify"
                    /\ UNCHANGED <<batch, attempt, waits, data, transactions, outcome>>
    /\ UNCHANGED <<caller, httpLog, result, now, expShift>>

\* lines 155-176: separate by property type
Classify ==
    /\ caller = "all" /\ sPc = "classify"
    /\ result' = Separate(all_transactions, <<>>, <<>>)
    /\ sPc' = "done"
    /\ UNCHANGED <<caller, batch, attempt, waits, httpLog, data, transactions,
                   outcome, all_transactions, responses, now, expShift>>

ReturnAll ==
    /\ caller = "all" /\ sPc = "done"
    /\ caller' = "none"
    /\ sPc' = "idle"
    /\ UNCHANGED <<batch, attempt, waits, httpLog, data, transactions, outcome,
                   all_transactions, responses, result, now, expShift>>

-----------------------------------------------------------------------------
(* DatabaseClient (src/db/db_client.py) over a PostgreSQL connection. *)

CONDO_TABLE  == "condo_transactions"
LANDED_TABLE == "landed_transactions"
Tables == {CONDO_TABLE, LANDED_TABLE}

NoRows == [t \in Tables |-> {}]

\* the columns of the tables' uniqueness constraint: every column but the
\* provenance ones (the schema is a deployment decision, spec section 4.3)
NaturalKey(row) ==
    [k \in (DOMAIN row) \ {"batch", "scraped_at"} |-> row[k]]

Conflicts(row, rows) == \E old \in rows : NaturalKey(old) = NaturalKey(row)

RECURSIVE ExecuteStatements(_, _, _)
\* INSERT ... ON CONFLICT DO NOTHING, one statement per record, run in order
\* against the rows visible to the transaction: the rows written and the
\* rowcount of the statement executed last
ExecuteStatements(records, visible, written) ==
    IF records = <<>> THEN [written |-> written, last |-> 0]
    ELSE LET row  == Head(records)
             skip == Conflicts(row, visible \cup written)
             rest == ExecuteStatements(Tail(records), visible,
                                       IF skip THEN written ELSE written \cup {row})
         IN  IF Tail(records) = <<>>
             THEN [written |-> rest.written, last |-> IF skip THEN 0 ELSE 1]
             ELSE rest

\* what cursor.rowcount holds after execute_batch: execute_batch sends the
\* statements of a page in one execute, and rowcount is that of the last statement
RowcountAfterBatch(executed) == executed.last

\* records[chunk_i : chunk_i + batch_size], chunk_i counted from 0
Chunk(records, from, batch_size) ==
    SubSeq(records, from + 1, Min(from + batch_size, Len(records)))

\* a rollback that takes the table back to where the call found it, as if the
\* whole call were one transaction
RollbackUndoesCall(committed, atCall) == atCall

\* the committed rows after conn.rollback(): they stay
RowsAfterRollback(committed, atCall) == committed

\* except psycopg2.Error of get_transaction_count without the handler
OnCountErrorPropagate == [kind |-> "raised", value |-> 0]

\* except psycopg2.Error of get_transaction_count (lines 163-165)
OnCountError == [kind |-> "returned", value |-> 0]

\* except psycopg2.Error of get_latest_transaction_date (lines 138-140)
OnLatestError == [kind |-> "returned", value |-> None]

\* the order of characters in text comparison
CharOrder == <<" ", "-", "0","1","2","3","4","5","6","7","8","9">>
                 \o UpperCase \o LowerCase

Rank(c) == CHOOSE k \in 1..Len(CharOrder) : CharOrder[k] = c

RECURSIVE TextLess(_, _)
\* a < b for text values
TextLess(a, b) ==
    IF b = <<>> THEN FALSE
    ELSE IF a = <<>> THEN TRUE
    ELSE IF Head(a) = Head(b) THEN TextLess(Tail(a), Tail(b))
    ELSE Rank(Head(a)) < Rank(Head(b))

\* the query with ORDER BY col ASC: the first row in ascending order
LatestOfAscending(rows, date_column) ==
    IF rows = {} THEN None
    ELSE LET top == CHOOSE r \in rows :
                        \A o \in rows : ~TextLess(o[date_column], r[date_column])
         IN  top[date_column]

\* SELECT col FROM t ORDER BY col DESC LIMIT 1, then fetchone()
LatestOf(rows, date_column) ==
    IF rows = {} THEN None
    ELSE LET top == CHOOSE r \in rows :
                        \A o \in rows : ~TextLess(r[date_column], o[date_column])
         IN  top[date_column]

NoCall == [method |-> "none"]
NoReturn == [kind |-> "none", value |-> 0]
NoLog == [tried |-> 0, failed |-> 0, added |-> 0, query |-> "none", again |-> FALSE]

\* no method of the client is running
FrameIdle ==
    /\ rowcount = -1
    /\ dPc = "idle"
    /\ dArgs = NoCall
    /\ chunk_i = 0
    /\ total_inserted = 0
    /\ dRet = NoReturn
    /\ tableAtCall = NoRows
    /\ callLog = NoLog

\* the method's frame is dropped
DropFrame ==
    /\ rowcount' = -1
    /\ dPc' = "idle"
    /\ dArgs' = NoCall
    /\ chunk_i' = 0
    /\ total_inserted' = 0
    /\ dRet' = NoReturn
    /\ tableAtCall' = NoRows
    /\ callLog' = NoLog

DbIdle ==
    /\ table = NoRows
    /\ pending = NoRows
    /\ txAborted = FALSE
    /\ committedLog = NoRows
    /\ FrameIdle

\* insert_transactions(table_name, records, batch_size) up to the first chunk:
\* empty input returns 0 at once; conn.cursor() raises on a lost connection
EnterInsert(table_name, records, batch_size, again) ==
    /\ conn \in {"open", "broken"}
    /\ dArgs' = [method |-> "insert_transactions", table_name |-> table_name,
                 transactions |-> records, batch_size |-> batch_size]
    /\ tableAtCall' = table
    /\ callLog' = [NoLog EXCEPT !.again = again]
    /\ chunk_i' = 0
    /\ total_inserted' = 0
    /\ IF records = <<>>
       THEN dPc' = "returned" /\ dRet' = [kind |-> "returned", value |-> 0]
       ELSE IF conn = "broken"
            THEN dPc' = "raised" /\ dRet' = [kind |-> "raised", value |-> 0]
            ELSE dPc' = "execute" /\ dRet' = NoReturn
    /\ rowcount' = -1
    /\ UNCHANGED <<conn, table, pending, txAborted, committedLog>>

\* after a chunk: the next chunk, or cursor.close() and return total_inserted
NextChunk(total) ==
    /\ chunk_i' = chunk_i + dArgs.batch_size
    /\ IF chunk_i + dArgs.batch_size < Len(dArgs.transactions)
       THEN dPc' = "execute" /\ dRet' = dRet
       ELSE dPc' = "returned" /\ dRet' = [kind |-> "returned", value |-> total]

\* execute_batch runs every statement of the chunk
ExecuteOk ==
    /\ dPc = "execute" /\ conn = "open" /\ ~txAborted
    /\ LET t        == dArgs.table_name
           chunk    == Chunk(dArgs.transactions, chunk_i, dArgs.batch_size)
           executed == ExecuteStatements(chunk, table[t] \cup pending[t], {})
       IN  /\ pending' = [pending EXCEPT ![t] = @ \cup executed.written]
           /\ rowcount' = RowcountAfterBatch(executed)
    /\ callLog' = [callLog EXCEPT !.tried = @ + 1]
    /\ dPc' = "commit"
    /\ UNCHANGED <<conn, table, txAborted, dArgs, chunk_i, total_inserted, dRet,
                   tableAtCall, committedLog>>

\* execute_batch raises psycopg2.Error at statement k of the chunk (at the
\* first one when the transaction is already in the failed state)
ExecuteError ==
    /\ dPc = "execute" /\ conn = "open"
    /\ LET t     == dArgs.table_name
           chunk == Chunk(dArgs.transactions, chunk_i, dArgs.batch_size)
       IN  \E k \in 1..Len(chunk) :
               /\ txAborted => k = 1
               /\ pending' = [pending EXCEPT ![t] = @ \cup
                      ExecuteStatements(SubSeq(chunk, 1, k - 1),
                                        table[t] \cup pending[t], {}).written]
    /\ txAborted' = TRUE
    /\ callLog' = [callLog EXCEPT !.tried = @ + 1, !.failed = @ + 1]
    /\ dPc' = "rollback"
    /\ UNCHANGED <<conn, table, rowcount, dArgs, chunk_i, total_inserted, dRet,
                   tableAtCall, committedLog>>

\* execute_batch or commit raises because the server is gone
ConnectionLost ==
    /\ dPc \in {"execute", "commit"} /\ conn = "open"
    /\ conn' = "broken"
    /\ pending' = NoRows
    /\ txAborted' = FALSE
    /\ callLog' = [callLog EXCEPT !.tried = @ + (IF dPc = "execute" THEN 1 ELSE 0),
                                  !.failed = @ + 1]
    /\ dPc' = "rollback"
    /\ UNCHANGED <<table, rowcount, dArgs, chunk_i, total_inserted, dRet,
                   tableAtCall, committedLog>>

\* conn.commit() succeeds; inserted_count = cursor.rowcount is added up
CommitOk ==
    /\ dPc = "commit" /\ conn = "open"
    /\ table' = [t \in Tables |-> table[t] \cup pending[t]]
    /\ committedLog' = [t \in Tables |-> committedLog[t] \cup pending[t]]
    /\ pending' = NoRows
    /\ total_inserted' = total_inserted + rowcount
    /\ callLog' = [callLog EXCEPT
                      !.added = @ + Cardinality(pending[dArgs.table_name])]
    /\ NextChunk(total_inserted + rowcount)
    /\ UNCHANGED <<conn, txAborted, rowcount, dArgs, tableAtCall>>

\* conn.commit() raises psycopg2.Error: the server drops the transaction
CommitError ==
    /\ dPc = "commit" /\ conn = "open"
    /\ txAborted' = TRUE
    /\ callLog' = [callLog EXCEPT !.failed = @ + 1]
    /\ dPc' = "rollback"
    /\ UNCHANGED <<conn, table, pending, rowcount, dArgs, chunk_i, total_inserted, dRet,
                   tableAtCall, committedLog>>

\* the except clause: conn.rollback() and continue; on a lost connection
\* rollback() itself raises and the exception leaves insert_transactions
Rollback ==
    /\ dPc = "rollback"
    /\ IF conn = "broken"
       THEN /\ dPc' = "raised"
            /\ dRet' = [kind |-> "raised", value |-> 0]
            /\ UNCHANGED <<table, pending, txAborted, chunk_i>>
       ELSE /\ table' = RowsAfterRollback(table, tableAtCall)
            /\ pending' = NoRows
            /\ txAborted' = FALSE
            /\ NextChunk(total_inserted)
    /\ UNCHANGED <<conn, rowcount, dArgs, total_inserted, tableAtCall, callLog,
                   committedLog>>

\* how a read-only query of the helpers can end, given the connection
QueryOutcomes ==
    IF conn # "open" THEN {"error"}
    ELSE IF txAborted THEN {"error", "lost"}
    ELSE {"ok", "error", "lost"}

\* the effect of a helper's query on the connection
QueryEffect(how) ==
    /\ conn' = IF how = "lost" THEN "broken" ELSE conn
    /\ txAborted' = IF how = "lost" THEN FALSE
                    ELSE IF how = "error" /\ conn = "open" THEN TRUE
                    ELSE txAborted
    /\ pending' = IF how = "lost" THEN NoRows ELSE pending

\* get_transaction_count(table_name), whole
GetTransactionCount(table_name) ==
    /\ conn \in {"open", "broken"}
    /\ \E how \in QueryOutcomes :
        /\ QueryEffect(how)
        /\ callLog' = [NoLog EXCEPT !.query = how]
        /\ dRet' = IF how = "ok"
                   THEN [kind |-> "returned",
                         value |-> Cardinality(table[table_name] \cup pending[table_name])]
                   ELSE OnCountError
    /\ dArgs' = [method |-> "get_transaction_count", table_name |-> table_name]
    /\ dPc' = dRet'.kind
    /\ UNCHANGED <<table, rowcount, chunk_i, total_inserted, tableAtCall, committedLog>>

\* get_latest_transaction_date(table_name, 'contract_date'), whole
GetLatestTransactionDate(table_name) ==
    /\ conn \in {"open", "broken"}
    /\ \E how \in QueryOutcomes :
        /\ QueryEffect(how)
        /\ callLog' = [NoLog EXCEPT !.query = how]
        /\ dRet' = IF how = "ok"
                   THEN [kind |-> "returned",
                         value |-> LatestOf(table[table_name] \cup pending[table_name],
                                            "contract_date")]
                   ELSE OnLatestError
    /\ dArgs' = [method |-> "get_latest_transaction_date", table_name |-> table_name]
    /\ dPc' = dRet'.kind
    /\ UNCHANGED <<table, rowcount, chunk_i, total_inserted, tableAtCall, committedLog>>

\* the caller takes the return value (or the exception)
ReturnDb ==
    /\ dPc \in {"returned", "raised"}
    /\ DropFrame
    /\ UNCHANGED <<conn, table, pending, txAborted, committedLog>>

\* main is not running
MainIdle ==
    /\ mPc = "off"
    /\ args = [include_rentals |-> FALSE, stats_only |-> FALSE]
    /\ statsStep = 1
    /\ exitCode = -1

-----------------------------------------------------------------------------
(* Specification of the database client, called directly. *)

\* records as the scraper builds them, two of them the same transaction
\* fetched in two runs
DbRecords ==
    { FlatRecord(FullProject, FullTransaction, 1, 1),
      FlatRecord(FullProject, FullTransaction, 2, 2),
      FlatRecord(FullProject, SparseTransaction, 1, 1) }

CallInsert ==
    /\ dPc = "idle"
    /\ \E t \in Tables, records \in SeqsUpTo(DbRecords, MaxRecords),
          batch_size \in 1..MaxBatchSize :
           EnterInsert(t, records, batch_size, FALSE)

\* the same call once more, right after it returned without a failed chunk
CallInsertAgain ==
    /\ dPc = "returned"
    /\ dArgs.method = "insert_transactions"
    /\ callLog.failed = 0
    /\ ~callLog.again
    /\ dArgs.transactions # <<>>
    /\ EnterInsert(dArgs.table_name, dArgs.transactions, dArgs.batch_size, TRUE)

CallCount ==
    /\ dPc = "idle"
    /\ \E t \in Tables : GetTransactionCount(t)

CallLatest ==
    /\ dPc = "idle"
    /\ \E t \in Tables : GetLatestTransactionDate(t)

\* a client freshly constructed on empty tables; nothing else runs
InitDb ==
    /\ ScraperIdle /\ now = 1 /\ expShift = 0
    /\ conn = "open"
    /\ DbIdle
    /\ MainIdle

NextDb ==
    \/ CallInsert /\ UNCHANGED <<scraperVars, mainVars>>
    \/ CallInsertAgain /\ UNCHANGED <<scraperVars, mainVars>>
    \/ ExecuteOk /\ UNCHANGED <<scraperVars, mainVars>>
    \/ ExecuteError /\ UNCHANGED <<scraperVars, mainVars>>
    \/ ConnectionLost /\ UNCHANGED <<scraperVars, mainVars>>
    \/ CommitOk /\ UNCHANGED <<scraperVars, mainVars>>
    \/ CommitError /\ UNCHANGED <<scraperVars, mainVars>>
    \/ Rollback /\ UNCHANGED <<scraperVars, mainVars>>
    \/ CallCount /\ UNCHANGED <<scraperVars, mainVars>>
    \/ CallLatest /\ UNCHANGED <<scraperVars, mainVars>>
    \/ ReturnDb /\ UNCHANGED <<scraperVars, mainVars>>

SpecDb == InitDb /\ [][NextDb]_vars

-----------------------------------------------------------------------------
(* Specification of the database client over tables of dated rows. *)

\* contract dates in ISO form, and the empty string of a record without one
DateSamples ==
    { <<"2","0","2","3","-","0","1","-","0","1">>,
      <<"2","0","2","4","-","0","6","-","1","5">>,
      <<"2","0","2","3","-","1","1","-","0","2">>,
      <<>> }

\* records as the scraper builds them, one per contract date
DatedRecords ==
    { FlatRecord(FullProject,
                 IF d = <<>>
                 THEN Restrict(FullTransaction,
                               (DOMAIN FullTransaction) \ {"contractDate"})
                 ELSE [FullTransaction EXCEPT !.contractDate = d],
                 1, 1) : d \in DateSamples }

\* insert_transactions with the default batch_size, as main calls it
CallInsertDated ==
    /\ dPc = "idle"
    /\ \E t \in Tables, records \in SeqsUpTo(DatedRecords, MaxDated) :
           EnterInsert(t, records, DefaultBatchSize, FALSE)

\* a client freshly constructed on empty tables; nothing else runs
InitLatest ==
    /\ ScraperIdle /\ now = 1 /\ expShift = 0
    /\ conn = "open"
    /\ DbIdle
    /\ MainIdle

NextLatest ==
    \/ CallInsertDated /\ UNCHANGED <<scraperVars, mainVars>>
    \/ ExecuteOk /\ UNCHANGED <<scraperVars, mainVars>>
    \/ ExecuteError /\ UNCHANGED <<scraperVars, mainVars>>
    \/ ConnectionLost /\ UNCHANGED <<scraperVars, mainVars>>
    \/ CommitOk /\ UNCHANGED <<scraperVars, mainVars>>
    \/ CommitError /\ UNCHANGED <<scraperVars, mainVars>>
    \/ Rollback /\ UNCHANGED <<scraperVars, mainVars>>
    \/ CallLatest /\ UNCHANGED <<scraperVars, mainVars>>
    \/ ReturnDb /\ UNCHANGED <<scraperVars, mainVars>>

SpecLatest == InitLatest /\ [][NextLatest]_vars

-----------------------------------------------------------------------------
(* Specifications of the scraper. *)

\* a scraper freshly constructed; no database client, main not running
InitScraper ==
    /\ ScraperIdle
    /\ now = 1
    /\ expShift \in {0, 1}
    /\ conn = "none"
    /\ DbIdle
    /\ MainIdle

\* single-batch fetches, called directly
NextFetch ==
    \/ CallSingle /\ UNCHANGED <<dbVars, mainVars>>
    \/ RequestOk(BatchResponses) /\ UNCHANGED <<dbVars, mainVars>>
    \/ RequestFail /\ UNCHANGED <<dbVars, mainVars>>
    \/ ReturnSingle /\ UNCHANGED <<dbVars, mainVars>>

SpecFetch == InitScraper /\ [][NextFetch]_vars

\* the four-batch fetch with its classification
NextAll ==
    \/ CallAll /\ UNCHANGED <<dbVars, mainVars>>
    \/ RequestOk(PipelineResponses) /\ UNCHANGED <<dbVars, mainVars>>
    \/ RequestFail /\ UNCHANGED <<dbVars, mainVars>>
    \/ ExtendAll /\ UNCHANGED <<dbVars, mainVars>>
    \/ Classify /\ UNCHANGED <<dbVars, mainVars>>
    \/ ReturnAll /\ UNCHANGED <<dbVars, mainVars>>

SpecAll == InitScraper /\ [][NextAll]_vars

\* get_all_available_transactions at line 155: batch 1 delivered its records
\* on the first attempt and batches 2 to 4 failed three times each
InitClassify ==
    /\ caller = "all"
    /\ sPc = "classify"
    /\ batch = NumBatches
    /\ attempt = MaxAttempts
    /\ waits = <<wait_exponential(1, 0), wait_exponential(2, 0)>>
    /\ httpLog = <<1, 2, 2, 2, 3, 3, 3, 4, 4, 4>>
    /\ data = RetryError
    /\ transactions = <<>>
    /\ outcome = "returned"
    /\ now = 1
    /\ expShift = 0
    /\ \E d \in ClassifyResponses :
        /\ all_transactions = ParseResponse(d, 1, now)
        /\ responses = <<d, RetryError, RetryError, RetryError>>
    /\ result = NoResultYet
    /\ conn = "none"
    /\ DbIdle
    /\ MainIdle

NextClassify ==
    \/ Classify /\ UNCHANGED <<dbVars, mainVars>>
    \/ ReturnAll /\ UNCHANGED <<dbVars, mainVars>>

SpecClassify == InitClassify /\ [][NextClassify]_vars

-----------------------------------------------------------------------------
(* main, scrape_and_store_ura_data and show_statistics (src/main.py). *)

\* responses to the four fetches of a run of main
MainResponses ==
    { Response(<<WithTransactions(FullProject,
                                  <<FullTransaction, SparseTransaction>>)>>),
      Response(<<WithTransactions(SparseProject, <<FullTransaction>>)>>) }

\* the process starts: the command line is parsed; the tables hold what
\* earlier runs left
InitMain ==
    /\ ScraperIdle /\ now = 2 /\ expShift = 0
    /\ conn = "none"
    /\ table \in {NoRows,
                  [NoRows EXCEPT ![CONDO_TABLE] =
                      {FlatRecord(FullProject, FullTransaction, 1, 1)}]}
    /\ pending = NoRows
    /\ txAborted = FALSE
    /\ committedLog = NoRows
    /\ FrameIdle
    /\ mPc = "start"
    /\ args \in [include_rentals : BOOLEAN, stats_only : BOOLEAN]
    /\ statsStep = 1
    /\ exitCode = -1

\* main returns code
Exit(code) ==
    /\ mPc' = "returned"
    /\ exitCode' = code

\* lines 143-159: Config.validate() raises ValueError, or DatabaseClient()
\* raises because connect() fails, or both clients are built
MainStart ==
    /\ mPc = "start"
    /\ \E configured \in BOOLEAN, connects \in BOOLEAN :
        IF configured /\ connects
        THEN /\ conn' = "open"
             /\ mPc' = IF args.stats_only THEN "stats" ELSE "fetch"
             /\ UNCHANGED exitCode
        ELSE /\ Exit(1)
             /\ UNCHANGED conn
    /\ UNCHANGED <<scraperVars, table, pending, txAborted, rowcount, dPc, dArgs,
                   chunk_i, total_inserted, dRet, tableAtCall, callLog, committedLog,
                   args, statsStep>>

\* scrape_and_store_ura_data calls get_all_available_transactions
MainFetch ==
    /\ mPc = "fetch"
    /\ CallAll
    /\ mPc' = "fetching"
    /\ UNCHANGED <<dbVars, args, statsStep, exitCode>>

\* it returns the two lists; an exception would be logged, re-raised (lines
\* 86-88) and end main with code 1 (lines 181-183)
MainFetched ==
    /\ mPc = "fetching"
    /\ sPc \in {"done", "aborted"}
    /\ caller' = "none"
    /\ sPc' = "idle"
    /\ batch' = 0
    /\ attempt' = 0
    /\ waits' = <<>>
    /\ httpLog' = <<>>
    /\ data' = None
    /\ transactions' = <<>>
    /\ outcome' = "none"
    /\ all_transactions' = <<>>
    /\ responses' = <<>>
    /\ IF sPc = "aborted"
       THEN Exit(1)
       ELSE mPc' = "store_condo" /\ UNCHANGED exitCode
    /\ UNCHANGED <<result, now, expShift, dbVars, args, statsStep>>

TableOf(category) == IF category = "condo" THEN CONDO_TABLE ELSE LANDED_TABLE

\* lines 48-56 and 59-67: store one category if its list is not empty
MainStore(category, elsewhere) ==
    /\ mPc = "store_" \o category
    /\ IF result[category] # <<>>
       THEN /\ EnterInsert(TableOf(category), result[category], DefaultBatchSize, FALSE)
            /\ mPc' = category
       ELSE /\ mPc' = elsewhere
            /\ UNCHANGED dbVars
    /\ UNCHANGED <<scraperVars, args, statsStep, exitCode>>

\* insert_transactions is back: go on, or an exception ends main with code 1
MainStored(category, elsewhere) ==
    /\ mPc = category
    /\ dPc \in {"returned", "raised"}
    /\ IF dPc = "raised"
       THEN /\ Exit(1)
            /\ UNCHANGED <<rowcount, dPc, dArgs, chunk_i, total_inserted, dRet,
                           tableAtCall, callLog>>
       ELSE /\ mPc' = elsewhere
            /\ DropFrame
            /\ UNCHANGED exitCode
    /\ UNCHANGED <<scraperVars, conn, table, pending, txAborted, committedLog,
                   args, statsStep>>

\* lines 70-80: with --include-rentals four rental batches are fetched and
\* dropped; nothing is stored
MainRentals ==
    /\ mPc = "rentals"
    /\ mPc' = "stats"
    /\ UNCHANGED <<scraperVars, dbVars, args, statsStep, exitCode>>

\* show_statistics: count and latest date of the condo table, then of the
\* landed table
MainStatsQuery ==
    /\ mPc = "stats" /\ dPc = "idle"
    /\ LET t == IF statsStep <= 2 THEN CONDO_TABLE ELSE LANDED_TABLE
       IN  IF statsStep \in {1, 3}
           THEN GetTransactionCount(t)
           ELSE GetLatestTransactionDate(t)
    /\ UNCHANGED <<scraperVars, mainVars>>

\* the helper is back; show_statistics swallows any exception (lines 121-122)
MainStatsNext ==
    /\ mPc = "stats" /\ dPc \in {"returned", "raised"}
    /\ IF dPc = "raised" \/ statsStep = 4
       THEN mPc' = "close" /\ statsStep' = 1
       ELSE mPc' = mPc /\ statsStep' = statsStep + 1
    /\ DropFrame
    /\ UNCHANGED <<scraperVars, conn, table, pending, txAborted, committedLog,
                   args, exitCode>>

\* lines 172-176: db_client.close() and return 0
MainClose ==
    /\ mPc = "close"
    /\ conn' = IF conn # "none" THEN "closed" ELSE conn
    /\ Exit(0)
    /\ UNCHANGED <<scraperVars, table, pending, txAborted, rowcount, dPc, dArgs,
                   chunk_i, total_inserted, dRet, tableAtCall, callLog, committedLog,
                   args, statsStep>>

NextMain ==
    \/ MainStart
    \/ MainFetch
    \/ RequestOk(MainResponses) /\ UNCHANGED <<dbVars, mainVars>>
    \/ RequestFail /\ UNCHANGED <<dbVars, mainVars>>
    \/ ExtendAll /\ UNCHANGED <<dbVars, mainVars>>
    \/ Classify /\ UNCHANGED <<dbVars, mainVars>>
    \/ MainFetched
    \/ MainStore("condo", "store_landed")
    \/ MainStored("condo", "store_landed")
    \/ MainStore("landed", "rentals")
    \/ MainStored("landed", "rentals")
    \/ ExecuteOk /\ UNCHANGED <<scraperVars, mainVars>>
    \/ ExecuteError /\ UNCHANGED <<scraperVars, mainVars>>
    \/ ConnectionLost /\ UNCHANGED <<scraperVars, mainVars>>
    \/ CommitOk /\ UNCHANGED <<scraperVars, mainVars>>
    \/ CommitError /\ UNCHANGED <<scraperVars, mainVars>>
    \/ Rollback /\ UNCHANGED <<scraperVars, mainVars>>
    \/ MainRentals
    \/ MainStatsQuery
    \/ MainStatsNext
    \/ MainClose

SpecMain == InitMain /\ [][NextMain]_vars

-----------------------------------------------------------------------------
(* Properties of the database client and of main. *)

InsertCall == dArgs.method = "insert_transactions"

\* number of chunks of the running insert_transactions call
ChunkCount ==
    (Len(dArgs.transactions) + dArgs.batch_size - 1) \div dArgs.batch_size

\* no two records of the list share the columns of the uniqueness constraint
DistinctRecords(records) ==
    \A a, b \in DOMAIN records :
        a # b => NaturalKey(records[a]) # NaturalKey(records[b])

\* C2 as stated: insert_transactions returns the number of rows it added to the
\* table; a first call with distinct records on a table without conflicting rows
\* returns len(records); the same call again returns 0 and leaves the table as
\* it was.
C2_ReturnsRowsAdded ==
    (InsertCall /\ dPc = "returned" /\ callLog.failed = 0) =>
        /\ dRet.value = callLog.added
        /\ ( /\ ~callLog.again
             /\ DistinctRecords(dArgs.transactions)
             /\ \A k \in DOMAIN dArgs.transactions :
                    ~Conflicts(dArgs.transactions[k], tableAtCall[dArgs.table_name]) )
           => dRet.value = Len(dArgs.transactions)
        /\ callLog.again => (dRet.value = 0 /\ table = tableAtCall)

\* C3 as stated: a call in which a chunk's insert raised still returns
\* normally, has attempted every chunk, has left nothing of a failed chunk
\* behind, and returns the number of rows its committed chunks added.
C3_FailedChunkIsolated ==
    (InsertCall /\ callLog.failed > 0) =>
        /\ dPc # "raised"
        /\ dPc = "returned" =>
            /\ callLog.tried = ChunkCount
            /\ pending = NoRows
            /\ dRet.value = callLog.added

Helper(method) == dArgs.method = method /\ dPc # "idle"

\* C9: get_transaction_count and get_latest_transaction_date never end with an
\* exception; when the query failed, on a statement error or on a lost
\* connection, the first returns 0 and the second returns None.
C9_HelpersNeverRaise ==
    /\ Helper("get_transaction_count") =>
        /\ dPc = "returned" /\ dRet.kind = "returned"
        /\ callLog.query # "ok" => dRet.value = 0
    /\ Helper("get_latest_transaction_date") =>
        /\ dPc = "returned" /\ dRet.kind = "returned"
        /\ callLog.query # "ok" => dRet.value = None

\* C9 witness: the count query of a table that holds rows failed because the
\* connection was lost, and the helper returned 0.
C9_Witness ==
    /\ Helper("get_transaction_count")
    /\ callLog.query = "lost"
    /\ conn = "broken"
    /\ table[dArgs.table_name] # {}
    /\ dRet = [kind |-> "returned", value |-> 0]

\* C8 as stated: when main has returned, a connection that was opened is closed.
C8_ConnectionClosedOnExit ==
    mPc = "returned" => conn \in {"none", "closed"}

\* C10: every row of every chunk committed so far is in its table, whatever
\* happened since: a later chunk rolled back, the other category failing, or a
\* fatal error that ended the run with exit code 1.
C10_CommittedChunksStay ==
    \A t \in Tables : committedLog[t] \subseteq table[t]

\* C10 witness: main ended with exit code 1 inside the landed insert, whose
\* first chunk was committed and whose later chunk failed, after the condo rows
\* were committed.
C10_Witness ==
    /\ mPc = "returned" /\ exitCode = 1
    /\ InsertCall /\ dArgs.table_name = LANDED_TABLE
    /\ callLog.failed > 0
    /\ chunk_i > 0
    /\ committedLog[LANDED_TABLE] # {}
    /\ committedLog[CONDO_TABLE] # {}

Digits == <<"0","1","2","3","4","5","6","7","8","9">>

RECURSIVE DateNumber(_, _)
\* the calendar date yyyy-mm-dd read as the number yyyymmdd (acc so far); the
\* empty string reads as 0
DateNumber(text, acc) ==
    IF text = <<>> THEN acc
    ELSE IF Head(text) = "-" THEN DateNumber(Tail(text), acc)
    ELSE DateNumber(Tail(text),
                    10 * acc + (CHOOSE k \in 1..10 : Digits[k] = Head(text)) - 1)

\* C11: get_latest_transaction_date whose query ran returns None when the
\* table is empty; otherwise it returns the contract_date of one of the
\* table's rows, and no row of the table has a later calendar date.
C11_LatestIsMaximum ==
    (Helper("get_latest_transaction_date") /\ callLog.query = "ok") =>
        LET rows == table[dArgs.table_name]
        IN  /\ dRet.kind = "returned"
            /\ rows = {} => dRet.value = None
            /\ rows # {} =>
                /\ \E r \in rows : r.contract_date = dRet.value
                /\ \A r \in rows :
                       DateNumber(r.contract_date, 0) <= DateNumber(dRet.value, 0)

\* C11 witness: the table holds exactly the dates 2023-01-01, 2024-06-15 and
\* 2023-11-02 and the helper returned 2024-06-15.
C11_Witness ==
    /\ Helper("get_latest_transaction_date") /\ callLog.query = "ok"
    /\ {r.contract_date : r \in table[dArgs.table_name]}
           = DateSamples \ {<<>>}
    /\ dRet = [kind |-> "returned",
               value |-> <<"2","0","2","4","-","0","6","-","1","5">>]

-----------------------------------------------------------------------------
(* Properties of the scraper. *)

RECURSIVE SumTxns(_)
\* the number of transaction objects under a Result list
SumTxns(ps) ==
    IF ps = <<>> THEN 0
    ELSE Len(Get(Head(ps), "transaction", <<>>)) + SumTxns(Tail(ps))

RECURSIVE OfBatch(_, _)
\* the records of a list that carry batch number b, in order
OfBatch(records, b) ==
    IF records = <<>> THEN <<>>
    ELSE IF Head(records).batch = b
         THEN <<Head(records)>> \o OfBatch(Tail(records), b)
         ELSE OfBatch(Tail(records), b)

\* number of session.get calls issued for batch b
Attempts(b) == Cardinality({i \in DOMAIN httpLog : httpLog[i] = b})

\* the string holds keyword kw at some position, ignoring letter case
HoldsKeyword(str, kw) ==
    \E off \in 0..(Len(str) - Len(kw)) :
        \A j \in 1..Len(kw) :
            \/ str[off + j] = kw[j]
            \/ \E c \in 1..26 : UpperCase[c] = kw[j] /\ LowerCase[c] = str[off + j]

TypeIsLanded(record) ==
    \/ HoldsKeyword(record.property_type, DETACHED)
    \/ HoldsKeyword(record.property_type, TERRACE)
    \/ HoldsKeyword(record.property_type, BUNGALOW)

TypeIsNotLanded(record) == ~TypeIsLanded(record)

\* C1: once the classification step has run, 'landed' holds exactly the fetched
\* records whose property_type contains DETACHED, TERRACE or BUNGALOW in any
\* letter case, 'condo' holds exactly the others, each list in fetch order with
\* every occurrence kept once: no record is dropped, duplicated or in both
\* lists, and nothing but property_type decides.
C1_ClassificationPartitions ==
    (caller = "all" /\ sPc = "done") =>
        /\ result.landed = SelectSeq(all_transactions, TypeIsLanded)
        /\ result.condo = SelectSeq(all_transactions, TypeIsNotLanded)
        /\ Len(result.landed) + Len(result.condo) = Len(all_transactions)

\* C1 witness: both lists are filled, a landed record is matched through a
\* lower-case letter, and a condo record has a landed keyword in its project name.
C1_Witness ==
    /\ caller = "all" /\ sPc = "done"
    /\ \E i \in DOMAIN result.landed :
           result.landed[i].property_type # upper(result.landed[i].property_type)
    /\ \E i \in DOMAIN result.condo :
           /\ HoldsKeyword(result.condo[i].project_name, TERRACE)
           /\ result.condo[i].property_type # <<>>

\* C4: the four-batch fetch issues its HTTP requests for batches 1, 2, 3, 4 in
\* that order, at most 3 per batch, and never aborts; when it reaches the
\* classification all four batches were requested, a batch whose 3 attempts all
\* failed has no record in the result, and every other batch has exactly the
\* records of its response.
C4_AllBatchesFetched ==
    /\ sPc # "aborted"
    /\ \A i \in DOMAIN httpLog : httpLog[i] \in 1..NumBatches
    /\ caller = "all" =>
        /\ httpLog # <<>> => httpLog[1] = 1
        /\ \A i \in 1..(Len(httpLog) - 1) :
               httpLog[i + 1] \in {httpLog[i], httpLog[i] + 1}
        /\ \A b \in 1..NumBatches : Attempts(b) <= 3
        /\ sPc \in {"classify", "done"} =>
            /\ Len(responses) = 4
            /\ \A b \in 1..4 :
                /\ Attempts(b) >= 1
                /\ responses[b] = RetryError =>
                       Attempts(b) = 3 /\ OfBatch(all_transactions, b) = <<>>
                /\ (responses[b] # RetryError /\ "Result" \in DOMAIN responses[b]) =>
                       /\ Len(OfBatch(all_transactions, b)) = SumTxns(responses[b].Result)
                       /\ OfBatch(all_transactions, b)
                              = ParseResponse(responses[b], b, now)
            /\ sPc = "done" =>
                   \A b \in 1..4 :
                       Len(OfBatch(result.condo, b)) + Len(OfBatch(result.landed, b))
                           = Len(OfBatch(all_transactions, b))

\* C4 witness: a run ended in which batch 2 failed three times and batches 3
\* and 4 still delivered records.
C4_Witness ==
    /\ caller = "all" /\ sPc = "done"
    /\ responses[2] = RetryError
    /\ Attempts(2) = 3
    /\ OfBatch(all_transactions, 3) # <<>>
    /\ OfBatch(result.condo \o result.landed, 4) # <<>>

\* C5 as stated: a direct single-batch fetch whose 3 attempts all failed ends
\* with the error raised to its caller.
C5_FailurePropagates ==
    (caller = "single" /\ sPc = "fetched" /\ data = RetryError) =>
        outcome = "raised"

\* C5 amended: a direct single-batch fetch whose 3 attempts all failed returns
\* normally with an empty list; the error leaves _make_request only.
C5_FailureReturnsEmpty ==
    (caller = "single" /\ sPc = "fetched" /\ data = RetryError) =>
        /\ outcome = "returned"
        /\ transactions = <<>>
        /\ Len(httpLog) = 3

\* C5 witness: a direct fetch of batch 3 ended after three failed attempts.
C5_Witness ==
    /\ caller = "single" /\ sPc = "fetched"
    /\ data = RetryError
    /\ batch = 3
    /\ httpLog = <<3, 3, 3>>

\* C6 as stated: at most 3 attempts, and the waits before the retries are 2 s
\* and then 4 s (doubling), never above 10 s.
C6_WaitsDouble ==
    caller = "single" =>
        /\ Len(httpLog) <= 3
        /\ Len(waits) >= 1 => waits[1] = 2
        /\ Len(waits) >= 2 => waits[2] = 2 * waits[1]
        /\ \A i \in DOMAIN waits : waits[i] <= 10

\* What does hold of the waits: at most 3 attempts and so at most 2 waits; every
\* wait lies between 2 and 10 seconds and no wait is shorter than the one
\* before; the first wait is 2 s and the second is 2 s when tenacity raises 2
\* to attempt - 1 (releases from 7.0 on) and 4 s when it raises 2 to attempt.
C6_WaitsBounded ==
    caller = "single" =>
        /\ Len(httpLog) <= 3
        /\ Len(waits) <= 2
        /\ \A i \in DOMAIN waits : waits[i] >= 2 /\ waits[i] <= 10
        /\ Len(waits) >= 1 => waits[1] = 2
        /\ Len(waits) >= 2 => waits[2] = (IF expShift = 0 THEN 2 ELSE 4)
        /\ \A i \in 1..(Len(waits) - 1) : waits[i] <= waits[i + 1]

\* a request that slept twice, 2 s each time, before its third attempt
C6_FlatWaits ==
    /\ caller = "single" /\ sPc = "request"
    /\ attempt = 3
    /\ waits = <<2, 2>>

ProjectsOf(d) == d.Result

TransactionsOf(project) ==
    IF "transaction" \in DOMAIN project THEN project.transaction ELSE <<>>

\* number of records that the projects before project i contribute
Offset(d, i) == SumTxns(SubSeq(ProjectsOf(d), 1, i - 1))

OrEmpty(d, key) == IF key \in DOMAIN d THEN d[key] ELSE <<>>

\* C7: for a response with a Result list the single-batch fetch returns one
\* record per transaction object, in project order then transaction order, and
\* the record of transaction j of project i carries that project's project,
\* street, x and y and that transaction's fields, the empty string standing for
\* every field that is missing.
C7_FlattenKeepsParents ==
    (sPc = "fetched" /\ data # None /\ data # RetryError /\ "Result" \in DOMAIN data) =>
        /\ outcome = "returned"
        /\ Len(transactions) = SumTxns(ProjectsOf(data))
        /\ \A i \in DOMAIN ProjectsOf(data) :
            \A j \in DOMAIN TransactionsOf(ProjectsOf(data)[i]) :
                LET project == ProjectsOf(data)[i]
                    txn     == TransactionsOf(project)[j]
                    record  == transactions[Offset(data, i) + j]
                IN  /\ record.project_name = OrEmpty(project, "project")
                    /\ record.street = OrEmpty(project, "street")
                    /\ record.x_coordinate = OrEmpty(project, "x")
                    /\ record.y_coordinate = OrEmpty(project, "y")
                    /\ record.area = OrEmpty(txn, "area")
                    /\ record.floor_range = OrEmpty(txn, "floorRange")
                    /\ record.no_of_units = OrEmpty(txn, "noOfUnits")
                    /\ record.contract_date = OrEmpty(txn, "contractDate")
                    /\ record.type_of_sale = OrEmpty(txn, "typeOfSale")
                    /\ record.price = OrEmpty(txn, "price")
                    /\ record.property_type = OrEmpty(txn, "propertyType")
                    /\ record.district = OrEmpty(txn, "district")
                    /\ record.type_of_area = OrEmpty(txn, "typeOfArea")
                    /\ record.tenure = OrEmpty(txn, "tenure")
                    /\ record.market_segment = OrEmpty(txn, "marketSegment")
                    /\ record.batch = batch

\* C7 witness: a response of two different projects, the first with two
\* transactions and the second, without street and y, with one.
C7_Witness ==
    /\ caller = "single" /\ sPc = "fetched"
    /\ data # None /\ data # RetryError /\ "Result" \in DOMAIN data
    /\ Len(ProjectsOf(data)) = 2
    /\ Len(TransactionsOf(ProjectsOf(data)[1])) = 2
    /\ Len(TransactionsOf(ProjectsOf(data)[2])) = 1
    /\ "street" \in DOMAIN ProjectsOf(data)[1]
    /\ "street" \notin DOMAIN ProjectsOf(data)[2]
    /\ Len(transactions) = 3
    /\ transactions[3].street = <<>>
    /\ transactions[1].street # <<>>

=============================================================================
